---- MODULE Spec2Model ----
(***************************************************************************)
(* The dashboard pages of Bytus (Settings, ApiKeys, Treasury,              *)
(* Transactions) as one state machine: the session kept in localStorage,   *)
(* the wouter location, each page's React state, the API calls in flight   *)
(* and the toasts shown.                                                   *)
(*                                                                         *)
(* One behaviour is one visit of one page.  A page's event handlers run    *)
(* only while the location is the page's own (after setLocation("/login")  *)
(* the page is no longer rendered); an async handler that was suspended in *)
(* an await goes on running after that, its calls to localStorage, to      *)
(* setLocation, to the api and to toast() included, while its state        *)
(* setters no longer change anything (React ignores the updates of an      *)
(* unmounted component).                                                   *)
(*                                                                         *)
(* The remote API is the environment: every call in flight is answered at  *)
(* some later step, in any order, with a payload or with an error message. *)
(***************************************************************************)
EXTENDS Integers, Sequences, FiniteSets, TLC

----------------------------------------------------------------------------
(* Bounds of the model. *)

\* API calls issued during one visit of a page.
MaxRequests == 4

\* API calls awaiting their response at the same time.
MaxInflight == 2

\* Highest page number the Next button is followed to.
MaxPage == 2

----------------------------------------------------------------------------
(* Strings that the code inspects are sequences of characters. *)

Str401 == <<"4", "0", "1">>

StrUnauthorized == <<"U", "n", "a", "u", "t", "h", "o", "r", "i", "z", "e", "d">>

\* Error messages a rejected API call may carry: none at all, and three texts.
NoMessage == <<>>

MsgHttp401 == <<"H", "T", "T", "P", " ", "4", "0", "1">>

MsgNetwork == <<"N", "e", "t", "w", "o", "r", "k", " ", "e", "r", "r", "o", "r">>

ErrorMessages == {NoMessage, MsgHttp401, StrUnauthorized, MsgNetwork}

\* String.prototype.includes
Includes(s, sub) ==
    \E i \in 1..(Len(s) - Len(sub) + 1) : SubSeq(s, i, i + Len(sub) - 1) = sub

\* The value null of an error state; it is read only for its truthiness,
\* which it shares with the empty string.
Null == <<>>

\* A text the code never inspects is kept whole, as a sequence of one element.
Text(string) == <<string>>

DefaultTransactionsError == Text("Failed to load transactions")

----------------------------------------------------------------------------
(* The state. *)

VARIABLES
    localStorage,   \* which of the keys auth_token and user are stored
    location,       \* the wouter location: the page shown, or "/login"
    mounted,        \* whether the page's mount effect has run
    inflight,       \* the API calls awaiting their response
    nextId,         \* the number of the next API call (issuance order)
    toasts,         \* the toast on screen: the latest one shown
    Settings,       \* the React state of the Settings page
    ApiKeys,        \* the React state of the ApiKeys page
    Treasury,       \* the React state of the Treasury page
    promiseAll,     \* the Promise.all of each loadTreasury whose calls are in flight
    Transactions,   \* the React state of the Transactions page
    lastEvent,      \* the last user event, and the number its first call got
    rejections,     \* how many load calls were rejected as Unauthorized
    lastResolved,   \* the payload of the last getTransactions call that succeeded
                    \* while the page was shown
    submitted       \* the text of the search box when the form was last submitted

vars == <<localStorage, location, mounted, inflight, nextId, toasts, Settings,
          ApiKeys, Treasury, promiseAll, Transactions, lastEvent, rejections,
          lastResolved, submitted>>

Pages == {"Settings", "ApiKeys", "Treasury", "Transactions"}

LoginLocation == "/login"

\* The page whose component is rendered and whose handlers can run.
Rendered(p) == location = p /\ mounted

----------------------------------------------------------------------------
(* The session. *)

\* A removeItem that flips the key instead of removing it
removeItemFlipping(store, key) == [store EXCEPT ![key] = ~store[key]]

\* localStorage.removeItem
removeItem(store, key) == [store EXCEPT ![key] = FALSE]

\* err.message?.includes("401") || err.message?.includes("Unauthorized")
IsUnauthorized(msg) == Includes(msg, Str401) \/ Includes(msg, StrUnauthorized)

\* err.message || "<the page's default message>"
ErrorText(msg, default) == IF msg # NoMessage THEN msg ELSE default

\* A catch block without localStorage.removeItem("user")
SessionAfterLoadErrorKeepingUser(store, msg) ==
    IF Includes(msg, Str401) \/ Includes(msg, StrUnauthorized)
    THEN [store EXCEPT !["auth_token"] = FALSE]
    ELSE store

\* The catch block shared by loadSettings, loadApiKeys, loadTreasury and
\* loadTransactions: what it leaves in localStorage,
SessionAfterLoadError(store, msg) ==
    IF IsUnauthorized(msg)
    THEN removeItem(removeItem(store, "auth_token"), "user")
    ELSE store

\* where it leaves the location,
LocationAfterLoadError(loc, msg) ==
    IF IsUnauthorized(msg) THEN LoginLocation ELSE loc

\* A catch block with setError("<the page's default message>")
ErrorAfterLoadErrorWithoutMessage(error, msg, default) ==
    IF Includes(msg, Str401) \/ Includes(msg, StrUnauthorized) THEN error ELSE default

\* and what it leaves in the page's error state.
ErrorAfterLoadError(error, msg, default) ==
    IF IsUnauthorized(msg) THEN error ELSE ErrorText(msg, default)

\* The count of the load calls rejected as Unauthorized, after one with msg
Rejections(count, msg) == IF IsUnauthorized(msg) THEN count + 1 ELSE count

----------------------------------------------------------------------------
(* API calls. *)

NoEvent == [kind |-> "none", first |-> 0]

\* A call in flight: its number, the api function, its argument, and the
\* handler suspended in the await of it (by cont.handler; for the two calls
\* of a Promise.all, cont.load is the number of the first of them).
Request(id, api, arg, cont) == [id |-> id, api |-> api, arg |-> arg, cont |-> cont]

Awaiting(handler) == [handler |-> handler, load |-> 0]

AwaitingAll(load) == [handler |-> "loadTreasury", load |-> load]

NoArg == "(none)"

\* The calls to one of apis that await their response
Calls(apis) == {r \in inflight : r.api \in apis}

\* The calls in flight whose handler reloads the list when they succeed
FollowUps == Cardinality(Calls({"createApiKey", "deleteApiKey"}))

\* Whether n more calls, and after them m reloads, fit the bounds of the model.
CanIssueThen(n, m) ==
    /\ nextId + n - 1 + FollowUps + m <= MaxRequests
    /\ Cardinality(inflight) + n <= MaxInflight

CanIssue(n) == CanIssueThen(n, 0)

\* toast({ title, description })
Toast(title, description) == [title |-> title, description |-> description]

NoToasts == [latest |-> Toast("(none)", <<>>)]

\* The toasts after one more is shown: the latest replaces the one before
Shown(shown, toast) == [shown EXCEPT !.latest = toast]

\* What the steps of one page leave alone: the state of the other pages.
OnlySettings == UNCHANGED <<ApiKeys, Treasury, promiseAll, Transactions, lastResolved, submitted>>

OnlyApiKeys == UNCHANGED <<Settings, Treasury, promiseAll, Transactions, lastResolved, submitted>>

OnlyTreasury == UNCHANGED <<toasts, Settings, ApiKeys, Transactions, lastResolved, submitted>>

OnlyTransactions == UNCHANGED <<toasts, Settings, ApiKeys, Treasury, promiseAll>>

----------------------------------------------------------------------------
(* Settings. *)

DefaultSettingsError == Text("Failed to load settings")

\* The texts typed into a field of the form.
FieldTexts == {"typed"}

EditableFields == {"company_name", "email", "website"}

\* The answers of the remote API to getSettings.
SettingsData ==
    {[company_name |-> "Acme", email |-> "ops@acme", website |-> "acme.io",
      registration_number |-> "R-1", kyc_status |-> "verified"],
     [company_name |-> "Acme Ltd", email |-> "ops@acme", website |-> "acme.io",
      registration_number |-> "R-2", kyc_status |-> "rejected"]}

InitSettings ==
    [settings |-> [company_name |-> "", email |-> "", website |-> "",
                   registration_number |-> "", kyc_status |-> "pending"],
     loading |-> TRUE, saving |-> FALSE, error |-> Null]

\* loadSettings up to its await,
LoadSettingsStart(S) == [S EXCEPT !.loading = TRUE, !.error = Null]

LoadSettingsCall(id) == Request(id, "getSettings", NoArg, Awaiting("loadSettings"))

\* after a response: the try block and finally,
LoadSettingsDone(S, data) == [S EXCEPT !.settings = data, !.loading = FALSE]

\* the catch block and finally.
LoadSettingsFailed(S, msg) ==
    [S EXCEPT !.error = ErrorAfterLoadError(S.error, msg, DefaultSettingsError),
              !.loading = FALSE]

\* The form is rendered when the page is neither loading nor in error.
SettingsFormRendered ==
    /\ Rendered("Settings")
    /\ ~Settings.loading
    /\ Settings.error = Null

IssueLoadSettings(kind) ==
    /\ CanIssue(1)
    /\ Settings' = LoadSettingsStart(Settings)
    /\ inflight' = inflight \cup {LoadSettingsCall(nextId)}
    /\ nextId' = nextId + 1
    /\ lastEvent' = [kind |-> kind, first |-> nextId]
    /\ UNCHANGED <<localStorage, location, toasts, rejections>>
    /\ OnlySettings

\* useEffect(() => { loadSettings() }, [])
MountSettings ==
    /\ location = "Settings" /\ ~mounted
    /\ mounted' = TRUE
    /\ IssueLoadSettings("mount")

\* Retry: onClick={loadSettings}, rendered when not loading and in error
RetrySettings ==
    /\ Rendered("Settings")
    /\ ~Settings.loading
    /\ Settings.error # Null
    /\ UNCHANGED mounted
    /\ IssueLoadSettings("retry")

\* Cancel: onClick={loadSettings}
CancelSettings ==
    /\ SettingsFormRendered
    /\ UNCHANGED mounted
    /\ IssueLoadSettings("cancel")

\* An onChange that spreads the initial settings instead of the current ones
EditSettingsFromInitial(field, text) ==
    /\ SettingsFormRendered
    /\ text # Settings.settings[field]
    /\ Settings' = [Settings EXCEPT !.settings = [InitSettings.settings EXCEPT ![field] = text]]
    /\ lastEvent' = [kind |-> "edit", first |-> nextId]
    /\ UNCHANGED <<localStorage, location, mounted, inflight, nextId, toasts, rejections>>
    /\ OnlySettings

\* onChange={(e) => setSettings({ ...settings, <field>: e.target.value })}
EditSettings(field, text) ==
    /\ SettingsFormRendered
    /\ text # Settings.settings[field]
    /\ Settings' = [Settings EXCEPT !.settings[field] = text]
    /\ lastEvent' = [kind |-> "edit", first |-> nextId]
    /\ UNCHANGED <<localStorage, location, mounted, inflight, nextId, toasts, rejections>>
    /\ OnlySettings

\* The argument of api.updateSettings in handleSave
UpdateSettingsArg(settings) ==
    [company_name |-> settings.company_name, email |-> settings.email,
     website |-> settings.website]

\* handleSave up to its await; the button is disabled={saving}
HandleSave ==
    /\ SettingsFormRendered
    /\ ~Settings.saving
    /\ CanIssue(1)
    /\ Settings' = [Settings EXCEPT !.saving = TRUE]
    /\ inflight' = inflight \cup
           {Request(nextId, "updateSettings", UpdateSettingsArg(Settings.settings),
                    Awaiting("handleSave"))}
    /\ nextId' = nextId + 1
    /\ lastEvent' = [kind |-> "save", first |-> nextId]
    /\ UNCHANGED <<localStorage, location, mounted, toasts, rejections>>
    /\ OnlySettings

\* handleSave after its await: the toast of the try block,
SaveSucceededToast == Toast("Success", Text("Settings updated successfully"))

\* the toast of the catch block.
SaveFailedToast(msg) == Toast("Error", ErrorText(msg, Text("Failed to update settings")))

\* The response to an updateSettings call arrives: a payload,
UpdateSettingsResolved(r) ==
    /\ r \in inflight /\ r.api = "updateSettings"
    /\ inflight' = inflight \ {r}
    /\ toasts' = Shown(toasts, SaveSucceededToast)
    /\ Settings' = IF Rendered("Settings")
                   THEN [Settings EXCEPT !.saving = FALSE]
                   ELSE Settings
    /\ UNCHANGED <<localStorage, location, mounted, nextId, lastEvent, rejections>>
    /\ OnlySettings

\* or an error.
UpdateSettingsRejected(r, msg) ==
    /\ r \in inflight /\ r.api = "updateSettings"
    /\ inflight' = inflight \ {r}
    /\ toasts' = Shown(toasts, SaveFailedToast(msg))
    /\ Settings' = IF Rendered("Settings")
                   THEN [Settings EXCEPT !.saving = FALSE]
                   ELSE Settings
    /\ UNCHANGED <<localStorage, location, mounted, nextId, lastEvent, rejections>>
    /\ OnlySettings

\* The response to a getSettings call arrives: a payload,
GetSettingsResolved(r, data) ==
    /\ r \in inflight /\ r.api = "getSettings"
    /\ inflight' = inflight \ {r}
    /\ Settings' = IF Rendered("Settings")
                   THEN LoadSettingsDone(Settings, data)
                   ELSE Settings
    /\ UNCHANGED <<localStorage, location, mounted, nextId, toasts, lastEvent, rejections>>
    /\ OnlySettings

\* or an error.
GetSettingsRejected(r, msg) ==
    /\ r \in inflight /\ r.api = "getSettings"
    /\ inflight' = inflight \ {r}
    /\ localStorage' = SessionAfterLoadError(localStorage, msg)
    /\ location' = LocationAfterLoadError(location, msg)
    /\ Settings' = IF Rendered("Settings")
                   THEN LoadSettingsFailed(Settings, msg)
                   ELSE Settings
    /\ rejections' = Rejections(rejections, msg)
    /\ UNCHANGED <<mounted, nextId, toasts, lastEvent>>
    /\ OnlySettings

----------------------------------------------------------------------------
(* ApiKeys. *)

DefaultApiKeysError == Text("Failed to load API keys")

\* The records of the remote API: id, name, key_prefix and status; created_at,
\* last_used and permissions are displayed only.
ApiKey(id, name, prefix) ==
    [id |-> id, name |-> name, key_prefix |-> prefix, status |-> "active"]

KeyProd == ApiKey("key-1", "Production", "bk_live_1a2b")

KeyTest == ApiKey("key-2", "Staging", "bk_test_3c4d")

\* The array a getApiKeys response carries: the records returned to call req
Keys(req, list) == [req |-> req, list |-> list]

\* The answers of the remote API to getApiKeys,
ApiKeysData(r) == {Keys(r.id, list) : list \in {{}, {KeyProd}, {KeyProd, KeyTest}}}

\* and the secret_key in its answer to the createApiKey call number id.
SecretKey(id) == <<"bk_live_secret", id>>

\* createdKey when null
NoSecret == <<>>

\* Names typed into the dialog
KeyNames == {<<>>, <<" ">>, <<" ", "p", " ">>}

RECURSIVE TrimStart(_)
TrimStart(s) == IF s # <<>> /\ Head(s) = " " THEN TrimStart(Tail(s)) ELSE s

RECURSIVE TrimEnd(_)
TrimEnd(s) ==
    IF s # <<>> /\ s[Len(s)] = " " THEN TrimEnd(SubSeq(s, 1, Len(s) - 1)) ELSE s

\* A name used as typed
Untrimmed(s) == s

\* String.prototype.trim
Trim(s) == TrimEnd(TrimStart(s))

InitApiKeys ==
    [keys |-> Keys(0, {}), loading |-> TRUE, error |-> Null,
     isCreateDialogOpen |-> FALSE, newKeyName |-> <<>>, createdKey |-> NoSecret,
     showCreatedKey |-> FALSE, creating |-> FALSE]

\* loadApiKeys up to its await,
LoadApiKeysStart(A) == [A EXCEPT !.loading = TRUE, !.error = Null]

\* the call it issues, awaited by loadApiKeys for handler,
LoadApiKeysCall(id, handler) == Request(id, "getApiKeys", NoArg, Awaiting(handler))

\* after a response: the try block and finally,
LoadApiKeysDone(A, data) == [A EXCEPT !.keys = data, !.loading = FALSE]

\* the catch block and finally.
LoadApiKeysFailed(A, msg) ==
    [A EXCEPT !.error = ErrorAfterLoadError(A.error, msg, DefaultApiKeysError),
              !.loading = FALSE]

IssueLoadApiKeys(kind) ==
    /\ CanIssue(1)
    /\ ApiKeys' = LoadApiKeysStart(ApiKeys)
    /\ inflight' = inflight \cup {LoadApiKeysCall(nextId, "loadApiKeys")}
    /\ nextId' = nextId + 1
    /\ lastEvent' = [kind |-> kind, first |-> nextId]
    /\ UNCHANGED <<localStorage, location, toasts, rejections>>
    /\ OnlyApiKeys

\* useEffect(() => { loadApiKeys() }, [])
MountApiKeys ==
    /\ location = "ApiKeys" /\ ~mounted
    /\ mounted' = TRUE
    /\ IssueLoadApiKeys("mount")

\* Retry: onClick={loadApiKeys}, rendered when not loading and in error
RetryApiKeys ==
    /\ Rendered("ApiKeys")
    /\ ~ApiKeys.loading
    /\ ApiKeys.error # Null
    /\ UNCHANGED mounted
    /\ IssueLoadApiKeys("retry")

\* A handler that sets state and issues nothing
SetApiKeys(A, kind) ==
    /\ ApiKeys' = A
    /\ lastEvent' = [kind |-> kind, first |-> nextId]
    /\ UNCHANGED <<localStorage, location, mounted, inflight, nextId, toasts, rejections>>
    /\ OnlyApiKeys

\* <Dialog open={isCreateDialogOpen} onOpenChange={setIsCreateDialogOpen}>:
\* the trigger button,
OpenCreateDialog ==
    /\ Rendered("ApiKeys")
    /\ ~ApiKeys.isCreateDialogOpen
    /\ SetApiKeys([ApiKeys EXCEPT !.isCreateDialogOpen = TRUE], "open")

\* Cancel, or the dialog dismissed.
CloseCreateDialog ==
    /\ Rendered("ApiKeys")
    /\ ApiKeys.isCreateDialogOpen
    /\ SetApiKeys([ApiKeys EXCEPT !.isCreateDialogOpen = FALSE], "cancel")

\* onChange={(e) => setNewKeyName(e.target.value)}
SetNewKeyName(text) ==
    /\ Rendered("ApiKeys")
    /\ ApiKeys.isCreateDialogOpen
    /\ text # ApiKeys.newKeyName
    /\ SetApiKeys([ApiKeys EXCEPT !.newKeyName = text], "name")

NameRequiredToast == Toast("Error", Text("Please enter a key name"))

\* handleCreateKey up to its await; the button is disabled={creating}
HandleCreateKey ==
    /\ Rendered("ApiKeys")
    /\ ApiKeys.isCreateDialogOpen
    /\ ~ApiKeys.creating
    /\ IF Trim(ApiKeys.newKeyName) = <<>>
       THEN /\ toasts' = Shown(toasts, NameRequiredToast)
            /\ UNCHANGED <<ApiKeys, inflight, nextId>>
       ELSE /\ CanIssueThen(1, 1)
            /\ ApiKeys' = [ApiKeys EXCEPT !.creating = TRUE]
            /\ inflight' = inflight \cup
                   {Request(nextId, "createApiKey", Trim(ApiKeys.newKeyName),
                            Awaiting("handleCreateKey"))}
            /\ nextId' = nextId + 1
            /\ UNCHANGED toasts
    /\ lastEvent' = [kind |-> "create", first |-> nextId]
    /\ UNCHANGED <<localStorage, location, mounted, rejections>>
    /\ OnlyApiKeys

\* A handleCreateKey without setCreatedKey(result.secret_key)
CreateKeyRevealedWithoutSecret(A, secret) ==
    [A EXCEPT !.showCreatedKey = TRUE, !.newKeyName = <<>>]

\* handleCreateKey after api.createApiKey: the state set before loadApiKeys()
CreateKeyRevealed(A, secret) ==
    [A EXCEPT !.createdKey = secret, !.showCreatedKey = TRUE, !.newKeyName = <<>>]

CreateSucceededToast == Toast("Success", Text("API key created successfully"))

CreateFailedToast(msg) == Toast("Error", ErrorText(msg, Text("Failed to create API key")))

DeleteSucceededToast == Toast("Success", Text("API key deleted successfully"))

DeleteFailedToast(msg) == Toast("Error", ErrorText(msg, Text("Failed to delete API key")))

\* The response to a createApiKey call arrives: a payload, and the handler
\* goes on to await loadApiKeys(),
CreateApiKeyResolved(r) ==
    /\ r \in inflight /\ r.api = "createApiKey"
    /\ ApiKeys' = IF Rendered("ApiKeys")
                  THEN LoadApiKeysStart(CreateKeyRevealed(ApiKeys, SecretKey(r.id)))
                  ELSE ApiKeys
    /\ inflight' = (inflight \ {r}) \cup {LoadApiKeysCall(nextId, "handleCreateKey")}
    /\ nextId' = nextId + 1
    /\ UNCHANGED <<localStorage, location, mounted, toasts, lastEvent, rejections>>
    /\ OnlyApiKeys

\* A catch block of handleCreateKey that also calls setError
CreateApiKeyRejectedSettingError(r, msg) ==
    /\ r \in inflight /\ r.api = "createApiKey"
    /\ inflight' = inflight \ {r}
    /\ toasts' = Shown(toasts, CreateFailedToast(msg))
    /\ ApiKeys' = IF Rendered("ApiKeys")
                  THEN [ApiKeys EXCEPT !.creating = FALSE,
                                       !.error = ErrorText(msg, DefaultApiKeysError)]
                  ELSE ApiKeys
    /\ UNCHANGED <<localStorage, location, mounted, nextId, lastEvent, rejections>>
    /\ OnlyApiKeys

\* or an error: the catch block and finally.
CreateApiKeyRejected(r, msg) ==
    /\ r \in inflight /\ r.api = "createApiKey"
    /\ inflight' = inflight \ {r}
    /\ toasts' = Shown(toasts, CreateFailedToast(msg))
    /\ ApiKeys' = IF Rendered("ApiKeys")
                  THEN [ApiKeys EXCEPT !.creating = FALSE]
                  ELSE ApiKeys
    /\ UNCHANGED <<localStorage, location, mounted, nextId, lastEvent, rejections>>
    /\ OnlyApiKeys

\* The rows, each with its delete button, are rendered when the page is not
\* loading, has no error and has at least one key.
KeyListRendered ==
    /\ Rendered("ApiKeys")
    /\ ~ApiKeys.loading
    /\ ApiKeys.error = Null
    /\ ApiKeys.keys.list # {}

\* A handleDeleteKey that does not look at the answer of confirm()
HandleDeleteKeyWhateverAnswer(key, confirmed) ==
    /\ KeyListRendered
    /\ key \in ApiKeys.keys.list
    /\ CanIssueThen(1, 1)
    /\ inflight' = inflight \cup
           {Request(nextId, "deleteApiKey", key.id, Awaiting("handleDeleteKey"))}
    /\ nextId' = nextId + 1
    /\ lastEvent' = [kind |-> "delete", first |-> nextId]
    /\ UNCHANGED <<localStorage, location, mounted, toasts, ApiKeys, rejections>>
    /\ OnlyApiKeys

\* handleDeleteKey up to its await: confirm(), then api.deleteApiKey(keyId)
HandleDeleteKey(key, confirmed) ==
    /\ KeyListRendered
    /\ key \in ApiKeys.keys.list
    /\ IF ~confirmed
       THEN /\ lastEvent' = [kind |-> "decline", first |-> nextId]
            /\ UNCHANGED <<inflight, nextId>>
       ELSE /\ CanIssueThen(1, 1)
            /\ inflight' = inflight \cup
                   {Request(nextId, "deleteApiKey", key.id, Awaiting("handleDeleteKey"))}
            /\ nextId' = nextId + 1
            /\ lastEvent' = [kind |-> "delete", first |-> nextId]
    /\ UNCHANGED <<localStorage, location, mounted, toasts, ApiKeys, rejections>>
    /\ OnlyApiKeys

\* The response to a deleteApiKey call arrives: a payload, and the handler
\* goes on to await loadApiKeys(),
DeleteApiKeyResolved(r) ==
    /\ r \in inflight /\ r.api = "deleteApiKey"
    /\ ApiKeys' = IF Rendered("ApiKeys") THEN LoadApiKeysStart(ApiKeys) ELSE ApiKeys
    /\ inflight' = (inflight \ {r}) \cup {LoadApiKeysCall(nextId, "handleDeleteKey")}
    /\ nextId' = nextId + 1
    /\ UNCHANGED <<localStorage, location, mounted, toasts, lastEvent, rejections>>
    /\ OnlyApiKeys

\* or an error: the catch block.
DeleteApiKeyRejected(r, msg) ==
    /\ r \in inflight /\ r.api = "deleteApiKey"
    /\ inflight' = inflight \ {r}
    /\ toasts' = Shown(toasts, DeleteFailedToast(msg))
    /\ UNCHANGED <<localStorage, location, mounted, nextId, lastEvent, ApiKeys, rejections>>
    /\ OnlyApiKeys

\* A handleCreateKey without its finally block
AfterLoadApiKeysWithoutFinally(A, handler) == A

\* What the handler that awaited loadApiKeys() does when it returns (it
\* returns normally whatever the response was): to the state,
AfterLoadApiKeys(A, handler) ==
    IF handler = "handleCreateKey" THEN [A EXCEPT !.creating = FALSE] ELSE A

\* A handler that shows nothing when loadApiKeys() has returned
ToastsAfterLoadApiKeysSilent(shown, handler) == shown

\* and to the toasts.
ToastsAfterLoadApiKeys(shown, handler) ==
    CASE handler = "handleCreateKey" -> Shown(shown, CreateSucceededToast)
      [] handler = "handleDeleteKey" -> Shown(shown, DeleteSucceededToast)
      [] OTHER -> shown

\* The response to a getApiKeys call arrives: a payload,
GetApiKeysResolved(r, data) ==
    /\ r \in inflight /\ r.api = "getApiKeys"
    /\ inflight' = inflight \ {r}
    /\ ApiKeys' = IF Rendered("ApiKeys")
                  THEN AfterLoadApiKeys(LoadApiKeysDone(ApiKeys, data), r.cont.handler)
                  ELSE ApiKeys
    /\ toasts' = ToastsAfterLoadApiKeys(toasts, r.cont.handler)
    /\ UNCHANGED <<localStorage, location, mounted, nextId, lastEvent, rejections>>
    /\ OnlyApiKeys

\* or an error.
GetApiKeysRejected(r, msg) ==
    /\ r \in inflight /\ r.api = "getApiKeys"
    /\ inflight' = inflight \ {r}
    /\ localStorage' = SessionAfterLoadError(localStorage, msg)
    /\ location' = LocationAfterLoadError(location, msg)
    /\ ApiKeys' = IF Rendered("ApiKeys")
                  THEN AfterLoadApiKeys(LoadApiKeysFailed(ApiKeys, msg), r.cont.handler)
                  ELSE ApiKeys
    /\ toasts' = ToastsAfterLoadApiKeys(toasts, r.cont.handler)
    /\ rejections' = Rejections(rejections, msg)
    /\ UNCHANGED <<mounted, nextId, lastEvent>>
    /\ OnlyApiKeys

\* A handleCloseCreatedKeyDialog without setCreatedKey(null)
HandleCloseKeepingCreatedKey ==
    /\ Rendered("ApiKeys")
    /\ ApiKeys.showCreatedKey
    /\ SetApiKeys([ApiKeys EXCEPT !.showCreatedKey = FALSE,
                                  !.isCreateDialogOpen = FALSE], "done")

\* handleCloseCreatedKeyDialog: Done, or the reveal dialog dismissed
HandleCloseCreatedKeyDialog ==
    /\ Rendered("ApiKeys")
    /\ ApiKeys.showCreatedKey
    /\ SetApiKeys([ApiKeys EXCEPT !.showCreatedKey = FALSE, !.createdKey = NoSecret,
                                  !.isCreateDialogOpen = FALSE], "done")

----------------------------------------------------------------------------
(* Treasury. *)

DefaultTreasuryError == Text("Failed to load treasury data")

\* The answers of the remote API to getTreasuryPositions: the positions
\* array returned to call req,
Positions(req, list) == [req |-> req, list |-> list]

PositionLists ==
    {<<>>,
     <<[name |-> "Aave USDC", value |-> 1000, apy |-> <<"4", "%">>],
       [name |-> "Compound DAI", value |-> 400, apy |-> <<"6", "%">>]>>,
     <<[name |-> "Curve", value |-> 200, apy |-> <<"b", "a", "d">>]>>,
     <<[name |-> "Lido", value |-> 300, apy |-> <<"4", "%", " ", "A", "P", "Y">>]>>}

PositionsData(r) == {Positions(r.id, list) : list \in PositionLists}

\* and to getTreasuryPortfolio.
Portfolio(req, value) == [req |-> req, total_value |-> value]

PortfolioData(r) == {Portfolio(r.id, value) : value \in {0, 1500}}

\* A call of the Promise.all that has not been answered
PendingPositions == Positions(0, <<>>)

PendingPortfolio == Portfolio(0, 0)

InitTreasury ==
    [positions |-> <<>>, totalValue |-> 0, loading |-> TRUE, error |-> Null]

\* loadTreasury up to its await,
LoadTreasuryStart(T) == [T EXCEPT !.loading = TRUE, !.error = Null]

\* The sum of the values of the positions of a list
RECURSIVE SumOfValues(_)
SumOfValues(list) ==
    IF list = <<>> THEN 0 ELSE Head(list).value + SumOfValues(Tail(list))

\* A try block with the total recomputed from the position list
LoadTreasuryDoneSummingPositions(T, positionsData, portfolioData) ==
    [T EXCEPT !.positions = positionsData.list,
              !.totalValue = SumOfValues(positionsData.list),
              !.loading = FALSE]

\* after the Promise.all is fulfilled: the try block and finally,
LoadTreasuryDone(T, positionsData, portfolioData) ==
    [T EXCEPT !.positions = positionsData.list,
              !.totalValue = portfolioData.total_value,
              !.loading = FALSE]

\* after it is rejected: the catch block and finally.
LoadTreasuryFailed(T, msg) ==
    [T EXCEPT !.error = ErrorAfterLoadError(T.error, msg, DefaultTreasuryError),
              !.loading = FALSE]

\* The decimal digits and their values
DigitValues ==
    ("0" :> 0) @@ ("1" :> 1) @@ ("2" :> 2) @@ ("3" :> 3) @@ ("4" :> 4) @@
    ("5" :> 5) @@ ("6" :> 6) @@ ("7" :> 7) @@ ("8" :> 8) @@ ("9" :> 9)

\* apy.replace("%", ""): the first "%" is removed
RECURSIVE ReplacePercent(_)
ReplacePercent(s) ==
    IF s = <<>> THEN <<>>
    ELSE IF Head(s) = "%" THEN Tail(s)
    ELSE <<Head(s)>> \o ReplacePercent(Tail(s))

\* The longest prefix of s made of digits
RECURSIVE DigitPrefix(_)
DigitPrefix(s) ==
    IF s # <<>> /\ Head(s) \in DOMAIN DigitValues
    THEN <<Head(s)>> \o DigitPrefix(Tail(s))
    ELSE <<>>

\* The number a sequence of digits denotes
RECURSIVE IntValue(_)
IntValue(digits) ==
    IF digits = <<>> THEN 0
    ELSE 10 * IntValue(SubSeq(digits, 1, Len(digits) - 1)) + DigitValues[digits[Len(digits)]]

\* The hundredths the digits after the point denote (two decimals are kept)
Hundredths(digits) ==
    (IF Len(digits) >= 1 THEN 10 * DigitValues[digits[1]] ELSE 0)
    + (IF Len(digits) >= 2 THEN DigitValues[digits[2]] ELSE 0)

\* parseFloat, for texts without sign and exponent: leading spaces are
\* skipped and the longest prefix digits[.digits] is the number, whatever
\* follows it; without such a prefix the result is NaN.  Numbers are counted
\* in hundredths.
ParseFloat(s) ==
    LET t == TrimStart(s)
        int == DigitPrefix(t)
        rest == SubSeq(t, Len(int) + 1, Len(t))
        frac == IF rest # <<>> /\ Head(rest) = "." THEN DigitPrefix(Tail(rest)) ELSE <<>>
    IN  IF int = <<>> /\ frac = <<>>
        THEN [nan |-> TRUE, value |-> 0]
        ELSE [nan |-> FALSE, value |-> 100 * IntValue(int) + Hundredths(frac)]

\* parseAPY: parseFloat(apy.replace("%", "")) || 0
parseAPY(apy) ==
    LET f == ParseFloat(ReplacePercent(apy))
    IN  IF f.nan \/ f.value = 0 THEN 0 ELSE f.value

\* positions.reduce((sum, p) => sum + parseAPY(p.apy), 0)
RECURSIVE SumOfAPY(_)
SumOfAPY(positions) ==
    IF positions = <<>> THEN 0
    ELSE parseAPY(Head(positions).apy) + SumOfAPY(Tail(positions))

\* (sum / n).toFixed(2), in hundredths: the quotient rounded to the nearest
ToFixed2(sum, n) == (2 * sum + n) \div (2 * n)

\* The Avg APY card: the mean when positions.length > 0, else "0.00"
AvgAPY(positions) ==
    IF Len(positions) > 0 THEN ToFixed2(SumOfAPY(positions), Len(positions)) ELSE 0

\* Promise.all([api.getTreasuryPositions(), api.getTreasuryPortfolio()])
IssueLoadTreasury(kind) ==
    /\ CanIssue(2)
    /\ Treasury' = LoadTreasuryStart(Treasury)
    /\ inflight' = inflight \cup
           {Request(nextId, "getTreasuryPositions", NoArg, AwaitingAll(nextId)),
            Request(nextId + 1, "getTreasuryPortfolio", NoArg, AwaitingAll(nextId))}
    /\ promiseAll' = promiseAll \cup
           {[load |-> nextId, positions |-> PendingPositions,
             portfolio |-> PendingPortfolio]}
    /\ nextId' = nextId + 2
    /\ lastEvent' = [kind |-> kind, first |-> nextId]
    /\ UNCHANGED <<localStorage, location, rejections>>
    /\ OnlyTreasury

\* useEffect(() => { loadTreasury() }, [])
MountTreasury ==
    /\ location = "Treasury" /\ ~mounted
    /\ mounted' = TRUE
    /\ IssueLoadTreasury("mount")

\* Retry: onClick={loadTreasury}, rendered when not loading and in error
RetryTreasury ==
    /\ Rendered("Treasury")
    /\ ~Treasury.loading
    /\ Treasury.error # Null
    /\ UNCHANGED mounted
    /\ IssueLoadTreasury("retry")

\* The Promise.all of call r, while neither fulfilled nor rejected
Unsettled(r) == {p \in promiseAll : p.load = r.cont.load}

\* The Promise.all p with the answer to call r recorded
Fulfil(p, r, data) ==
    IF r.api = "getTreasuryPositions"
    THEN [p EXCEPT !.positions = data]
    ELSE [p EXCEPT !.portfolio = data]

AllFulfilled(p) == p.positions # PendingPositions /\ p.portfolio # PendingPortfolio

TreasuryApis == {"getTreasuryPositions", "getTreasuryPortfolio"}

TreasuryData(r) ==
    IF r.api = "getTreasuryPositions" THEN PositionsData(r) ELSE PortfolioData(r)

\* The response to one call of a Promise.all arrives: a payload, which
\* fulfils the Promise.all when the other call has been answered too,
TreasuryResolved(r, data) ==
    /\ r \in inflight /\ r.api \in TreasuryApis
    /\ inflight' = inflight \ {r}
    /\ IF Unsettled(r) = {}
       THEN UNCHANGED <<promiseAll, Treasury>>
       ELSE LET p == Fulfil(CHOOSE q \in Unsettled(r) : TRUE, r, data)
            IN  IF AllFulfilled(p)
                THEN /\ promiseAll' = promiseAll \ Unsettled(r)
                     /\ Treasury' = IF Rendered("Treasury")
                                    THEN LoadTreasuryDone(Treasury, p.positions, p.portfolio)
                                    ELSE Treasury
                ELSE /\ promiseAll' = (promiseAll \ Unsettled(r)) \cup {p}
                     /\ UNCHANGED Treasury
    /\ UNCHANGED <<localStorage, location, mounted, nextId, lastEvent, rejections>>
    /\ OnlyTreasury

\* or an error, which rejects the Promise.all unless it is already rejected
\* (a later rejection is dropped).
TreasuryRejected(r, msg) ==
    /\ r \in inflight /\ r.api \in TreasuryApis
    /\ inflight' = inflight \ {r}
    /\ IF Unsettled(r) = {}
       THEN UNCHANGED <<promiseAll, Treasury, localStorage, location>>
       ELSE /\ promiseAll' = promiseAll \ Unsettled(r)
            /\ localStorage' = SessionAfterLoadError(localStorage, msg)
            /\ location' = LocationAfterLoadError(location, msg)
            /\ Treasury' = IF Rendered("Treasury")
                           THEN LoadTreasuryFailed(Treasury, msg)
                           ELSE Treasury
    /\ rejections' = Rejections(rejections, msg)
    /\ UNCHANGED <<mounted, nextId, lastEvent>>
    /\ OnlyTreasury

----------------------------------------------------------------------------
(* Transactions. *)

PageSize == 10

\* The texts typed into the search box
SearchTexts == {"alice"}

StatusFilters == {"all", "settled"}

Absent == "(absent)"

\* const params = { page, limit: 10 }; search and filter are added when set.
TransactionParams(page, search, filter) ==
    [page |-> page, limit |-> PageSize,
     search |-> IF search # "" THEN search ELSE Absent,
     filter |-> IF filter # "all" THEN filter ELSE Absent]

\* The array a getTransactions response carries: the rows the server found
\* for the parameters of call req, length of them.
Rows(req, params, length) == [req |-> req, for |-> params, length |-> length]

NoParams == [page |-> 0, limit |-> 0, search |-> Absent, filter |-> Absent]

\* useState([]), before any response
NoRows == Rows(0, NoParams, 0)

\* The answers of the remote API to getTransactions: a page of 0, 3 or 10
\* rows; the total counts the rows of the earlier pages too.
RowCounts == {0, 3, PageSize}

TransactionsData(r) ==
    {[transactions |-> Rows(r.id, r.arg, n), total |-> (r.arg.page - 1) * PageSize + n] :
        n \in RowCounts}

NoData == [transactions |-> NoRows, total |-> 0]

InitTransactions ==
    [transactions |-> NoRows, loading |-> TRUE, error |-> Null, search |-> "",
     filter |-> "all", page |-> 1, total |-> 0]

\* loadTransactions up to its await: the state it sets,
LoadTransactionsStart(T) == [T EXCEPT !.loading = TRUE, !.error = Null]

\* and the call it issues, with the page, search and filter of the render
\* whose closure is run.
LoadTransactionsCall(id, T) ==
    Request(id, "getTransactions", TransactionParams(T.page, T.search, T.filter),
            Awaiting("loadTransactions"))

\* A try block without setTotal(data.total)
LoadTransactionsDoneWithoutTotal(T, data) ==
    [T EXCEPT !.transactions = data.transactions, !.loading = FALSE]

\* loadTransactions after a response: the try block and finally,
LoadTransactionsDone(T, data) ==
    [T EXCEPT !.transactions = data.transactions, !.total = data.total,
              !.loading = FALSE]

\* the catch block and finally.
LoadTransactionsFailed(T, msg) ==
    [T EXCEPT !.error = ErrorAfterLoadError(T.error, msg, DefaultTransactionsError),
              !.loading = FALSE]

\* useEffect(() => { loadTransactions() }, [page, filter]) on mount
MountTransactions ==
    /\ location = "Transactions" /\ ~mounted
    /\ CanIssue(1)
    /\ mounted' = TRUE
    /\ Transactions' = LoadTransactionsStart(Transactions)
    /\ inflight' = inflight \cup {LoadTransactionsCall(nextId, Transactions)}
    /\ nextId' = nextId + 1
    /\ lastEvent' = [kind |-> "mount", first |-> nextId]
    /\ UNCHANGED <<localStorage, location, rejections, lastResolved, submitted>>
    /\ OnlyTransactions

\* handleSearch: setPage(1), then loadTransactions() of the current render
\* (which still reads the old page); when the page state changes, the effect
\* on [page, filter] runs loadTransactions() of the next render.
HandleSearch ==
    /\ Rendered("Transactions")
    /\ LET T1 == LoadTransactionsStart(Transactions)
           first == LoadTransactionsCall(nextId, Transactions)
           T2 == [T1 EXCEPT !.page = 1]
       IN  IF Transactions.page = 1
           THEN /\ CanIssue(1)
                /\ Transactions' = T1
                /\ inflight' = inflight \cup {first}
                /\ nextId' = nextId + 1
           ELSE /\ CanIssue(2)
                /\ Transactions' = LoadTransactionsStart(T2)
                /\ inflight' = inflight \cup {first, LoadTransactionsCall(nextId + 1, T2)}
                /\ nextId' = nextId + 2
    /\ lastEvent' = [kind |-> "search", first |-> nextId]
    /\ submitted' = Transactions.search
    /\ UNCHANGED <<localStorage, location, mounted, rejections, lastResolved>>
    /\ OnlyTransactions

\* A change of page or filter state, and the effect on [page, filter] that
\* follows the render.
ChangeAndReload(T, kind) ==
    /\ CanIssue(1)
    /\ Transactions' = LoadTransactionsStart(T)
    /\ inflight' = inflight \cup {LoadTransactionsCall(nextId, T)}
    /\ nextId' = nextId + 1
    /\ lastEvent' = [kind |-> kind, first |-> nextId]
    /\ UNCHANGED <<localStorage, location, mounted, rejections, lastResolved, submitted>>
    /\ OnlyTransactions

\* A search box whose text is a dependency of the effect
SetSearchAndReload(text) ==
    /\ Rendered("Transactions")
    /\ text # Transactions.search
    /\ ChangeAndReload([Transactions EXCEPT !.search = text], "type")

\* onChange={(e) => setSearch(e.target.value)}
SetSearch(text) ==
    /\ Rendered("Transactions")
    /\ text # Transactions.search
    /\ Transactions' = [Transactions EXCEPT !.search = text]
    /\ lastEvent' = [kind |-> "type", first |-> nextId]
    /\ UNCHANGED <<localStorage, location, mounted, inflight, nextId, rejections,
                   lastResolved, submitted>>
    /\ OnlyTransactions

\* <Select value={filter} onValueChange={setFilter}>
SetFilter(value) ==
    /\ Rendered("Transactions")
    /\ value # Transactions.filter
    /\ ChangeAndReload([Transactions EXCEPT !.filter = value], "filter")

\* The rows and the pagination buttons are rendered when the page is not
\* loading, has no error and has at least one row.
PaginationRendered ==
    /\ Rendered("Transactions")
    /\ ~Transactions.loading
    /\ Transactions.error = Null
    /\ Transactions.transactions.length # 0

Max(a, b) == IF a >= b THEN a ELSE b

\* Previous: setPage((p) => Math.max(1, p - 1)), disabled={page === 1}
PreviousPage ==
    /\ PaginationRendered
    /\ Transactions.page # 1
    /\ ChangeAndReload([Transactions EXCEPT !.page = Max(1, Transactions.page - 1)], "previous")

\* A Next button without disabled={transactions.length < 10}
NextPageNeverDisabled ==
    /\ PaginationRendered
    /\ Transactions.page < MaxPage
    /\ ChangeAndReload([Transactions EXCEPT !.page = Transactions.page + 1], "next")

\* Next: setPage((p) => p + 1), disabled={transactions.length < 10}
NextPage ==
    /\ PaginationRendered
    /\ ~(Transactions.transactions.length < PageSize)
    /\ Transactions.page < MaxPage
    /\ ChangeAndReload([Transactions EXCEPT !.page = Transactions.page + 1], "next")

\* Retry: onClick={loadTransactions}, rendered when not loading and in error
RetryTransactions ==
    /\ Rendered("Transactions")
    /\ ~Transactions.loading
    /\ Transactions.error # Null
    /\ ChangeAndReload(Transactions, "retry")

\* The response to a getTransactions call arrives: a payload,
TransactionsResolved(r, data) ==
    /\ r \in inflight /\ r.api = "getTransactions"
    /\ inflight' = inflight \ {r}
    /\ lastResolved' = IF Rendered("Transactions") THEN data ELSE lastResolved
    /\ Transactions' = IF Rendered("Transactions")
                       THEN LoadTransactionsDone(Transactions, data)
                       ELSE Transactions
    /\ UNCHANGED <<localStorage, location, mounted, nextId, lastEvent, rejections, submitted>>
    /\ OnlyTransactions

\* or an error.
TransactionsRejected(r, msg) ==
    /\ r \in inflight /\ r.api = "getTransactions"
    /\ inflight' = inflight \ {r}
    /\ localStorage' = SessionAfterLoadError(localStorage, msg)
    /\ location' = LocationAfterLoadError(location, msg)
    /\ Transactions' = IF Rendered("Transactions")
                       THEN LoadTransactionsFailed(Transactions, msg)
                       ELSE Transactions
    /\ rejections' = Rejections(rejections, msg)
    /\ UNCHANGED <<mounted, nextId, lastEvent, lastResolved, submitted>>
    /\ OnlyTransactions

----------------------------------------------------------------------------
(* The specification. *)

Init ==
    /\ localStorage = [auth_token |-> TRUE, user |-> TRUE]
    /\ location \in Pages
    /\ mounted = FALSE
    /\ inflight = {}
    /\ nextId = 1
    /\ toasts = NoToasts
    /\ Settings = InitSettings
    /\ ApiKeys = InitApiKeys
    /\ Treasury = InitTreasury
    /\ promiseAll = {}
    /\ Transactions = InitTransactions
    /\ lastEvent = NoEvent
    /\ rejections = 0
    /\ lastResolved = NoData
    /\ submitted = ""

Next ==
    \/ MountSettings
    \/ RetrySettings
    \/ CancelSettings
    \/ \E field \in EditableFields : \E text \in FieldTexts : EditSettings(field, text)
    \/ HandleSave
    \/ \E r \in Calls({"updateSettings"}) : UpdateSettingsResolved(r)
    \/ \E r \in Calls({"updateSettings"}) : \E msg \in ErrorMessages : UpdateSettingsRejected(r, msg)
    \/ \E r \in Calls({"getSettings"}) : \E data \in SettingsData : GetSettingsResolved(r, data)
    \/ \E r \in Calls({"getSettings"}) : \E msg \in ErrorMessages : GetSettingsRejected(r, msg)
    \/ MountApiKeys
    \/ RetryApiKeys
    \/ OpenCreateDialog
    \/ CloseCreateDialog
    \/ \E text \in KeyNames : SetNewKeyName(text)
    \/ HandleCreateKey
    \/ \E key \in ApiKeys.keys.list : \E confirmed \in BOOLEAN : HandleDeleteKey(key, confirmed)
    \/ HandleCloseCreatedKeyDialog
    \/ \E r \in Calls({"createApiKey"}) : CreateApiKeyResolved(r)
    \/ \E r \in Calls({"createApiKey"}) : \E msg \in ErrorMessages : CreateApiKeyRejected(r, msg)
    \/ \E r \in Calls({"deleteApiKey"}) : DeleteApiKeyResolved(r)
    \/ \E r \in Calls({"deleteApiKey"}) : \E msg \in ErrorMessages : DeleteApiKeyRejected(r, msg)
    \/ \E r \in Calls({"getApiKeys"}) : \E data \in ApiKeysData(r) : GetApiKeysResolved(r, data)
    \/ \E r \in Calls({"getApiKeys"}) : \E msg \in ErrorMessages : GetApiKeysRejected(r, msg)
    \/ MountTreasury
    \/ RetryTreasury
    \/ \E r \in Calls(TreasuryApis) : \E data \in TreasuryData(r) : TreasuryResolved(r, data)
    \/ \E r \in Calls(TreasuryApis) : \E msg \in ErrorMessages : TreasuryRejected(r, msg)
    \/ MountTransactions
    \/ \E text \in SearchTexts : SetSearch(text)
    \/ HandleSearch
    \/ \E value \in StatusFilters : SetFilter(value)
    \/ PreviousPage
    \/ NextPage
    \/ RetryTransactions
    \/ \E r \in Calls({"getTransactions"}) : \E data \in TransactionsData(r) : TransactionsResolved(r, data)
    \/ \E r \in Calls({"getTransactions"}) : \E msg \in ErrorMessages : TransactionsRejected(r, msg)

Spec == Init /\ [][Next]_vars

\* A visit of the ApiKeys page: the behaviours of Spec that start there.
InitApiKeysPage == Init /\ location = "ApiKeys"

\* The remote API answers a call of the ApiKeys page, with a payload or with
\* an error.
ResponseApiKeys ==
    \/ \E r \in Calls({"createApiKey"}) : CreateApiKeyResolved(r)
    \/ \E r \in Calls({"createApiKey"}) : \E msg \in ErrorMessages : CreateApiKeyRejected(r, msg)
    \/ \E r \in Calls({"deleteApiKey"}) : DeleteApiKeyResolved(r)
    \/ \E r \in Calls({"deleteApiKey"}) : \E msg \in ErrorMessages : DeleteApiKeyRejected(r, msg)
    \/ \E r \in Calls({"getApiKeys"}) : \E data \in ApiKeysData(r) : GetApiKeysResolved(r, data)
    \/ \E r \in Calls({"getApiKeys"}) : \E msg \in ErrorMessages : GetApiKeysRejected(r, msg)

NextApiKeys ==
    \/ MountApiKeys
    \/ RetryApiKeys
    \/ OpenCreateDialog
    \/ CloseCreateDialog
    \/ \E text \in KeyNames : SetNewKeyName(text)
    \/ HandleCreateKey
    \/ \E key \in ApiKeys.keys.list : \E confirmed \in BOOLEAN : HandleDeleteKey(key, confirmed)
    \/ HandleCloseCreatedKeyDialog
    \/ ResponseApiKeys

\* The visit with every call in flight answered in the end: an awaited
\* promise settles, and its continuation is then run.
FairApiKeys == InitApiKeysPage /\ [][NextApiKeys]_vars /\ WF_vars(ResponseApiKeys)

----------------------------------------------------------------------------
(* Properties: the session. *)

\* A failure message classified as Unauthorized
ContainsUnauthorized(msg) == Includes(msg, Str401) \/ Includes(msg, StrUnauthorized)

\* The failure messages classified as Unauthorized, and the others
UnauthorizedMessages == {msg \in ErrorMessages : ContainsUnauthorized(msg)}

OtherMessages == ErrorMessages \ UnauthorizedMessages

SessionStored == localStorage.auth_token /\ localStorage.user

SessionCleared == ~localStorage.auth_token /\ ~localStorage.user

\* The catch block of a load handler runs with msg.  The two calls of
\* loadTreasury are one Promise.all: its catch block runs for the first
\* rejection, and a rejection after that reaches no handler.
LoadFailure(r, msg) ==
    \/ GetSettingsRejected(r, msg)
    \/ GetApiKeysRejected(r, msg)
    \/ TreasuryRejected(r, msg) /\ Unsettled(r) # {}
    \/ TransactionsRejected(r, msg)

\* The catch block of a mutation handler runs with msg.
MutationFailure(r, msg) ==
    \/ UpdateSettingsRejected(r, msg)
    \/ CreateApiKeyRejected(r, msg)
    \/ DeleteApiKeyRejected(r, msg)

\* A load call is rejected with msg, whether or not a handler sees it.
LoadCallRejected(r, msg) ==
    \/ GetSettingsRejected(r, msg)
    \/ GetApiKeysRejected(r, msg)
    \/ TreasuryRejected(r, msg)
    \/ TransactionsRejected(r, msg)

PageErrors == <<Settings.error, ApiKeys.error, Treasury.error, Transactions.error>>

\* Which pages are in the phase Failed: not loading, with an error message
FailedPhases ==
    <<~Settings.loading /\ Settings.error # Null,
      ~ApiKeys.loading /\ ApiKeys.error # Null,
      ~Treasury.loading /\ Treasury.error # Null,
      ~Transactions.loading /\ Transactions.error # Null>>

\* C1: a failure with a message containing "401" or "Unauthorized" is handled
\* the same way for every API call, the mutations updateSettings,
\* createApiKey and deleteApiKey included: auth_token and user are removed,
\* the location becomes /login, and the failure is not shown as an error
\* message (no error state, no Error toast).
C1_UnauthorizedHandledForEveryCall ==
    [][\A r \in inflight \ inflight' : \A msg \in UnauthorizedMessages :
          (LoadFailure(r, msg) \/ MutationFailure(r, msg))
          => /\ SessionCleared'
             /\ location' = LoginLocation
             /\ PageErrors' = PageErrors
             /\ ~(toasts' # toasts /\ toasts'.latest.title = "Error")]_vars

C3_RequestsOnlyWithSession ==
    [][nextId' # nextId => SessionStored]_vars

\* C4: when a load call fails as Unauthorized after an earlier such failure
\* has cleared the session, the session stays cleared, the location stays
\* /login, and no page's state (error message included) changes: the state
\* is that left by the first failure.
C4_SessionClearingIdempotent ==
    [][\A r \in inflight \ inflight' : \A msg \in UnauthorizedMessages :
          (SessionCleared /\ LoadCallRejected(r, msg))
          => /\ localStorage' = localStorage
             /\ location = LoginLocation /\ location' = LoginLocation
             /\ Settings' = Settings /\ ApiKeys' = ApiKeys
             /\ Treasury' = Treasury /\ Transactions' = Transactions]_vars

\* Two overlapping Transactions fetches (the mount and a filter change) were
\* both rejected as Unauthorized.
C4_Witness ==
    /\ rejections = 2
    /\ lastEvent.kind = "filter"
    /\ inflight = {}
    /\ SessionCleared
    /\ location = LoginLocation
    /\ Transactions.error = Null

\* The message a failed load shows
ShownMessage(msg, default) == IF msg = NoMessage THEN default ELSE msg

----------------------------------------------------------------------------
(* Properties: the Transactions list. *)

Displayed == [transactions |-> Transactions.transactions, total |-> Transactions.total]

\* The parameters of the fetch the page's current state asks for
CurrentParams(page) == TransactionParams(page, Transactions.search, Transactions.filter)

\* C6: when the response to a getTransactions call arrives after the response
\* to a call issued later has been applied, it is discarded: transactions,
\* total, error and loading are left as they were.
C6_StaleResponseDiscarded ==
    [][\A r \in inflight \ inflight' : \A data \in (IF r.api = "getTransactions" THEN TransactionsData(r) ELSE {}) :
          (/\ TransactionsResolved(r, data)
           /\ Rendered("Transactions")
           /\ r.id < Transactions.transactions.req)
          => /\ Displayed' = Displayed
             /\ Transactions'.error = Transactions.error
             /\ Transactions'.loading = Transactions.loading]_vars

\* C7: while the Transactions page is shown, the displayed transactions and
\* total are those of the getTransactions call that succeeded last, in
\* whatever order the responses arrive.
C7_DisplayedIsLastResolved ==
    Rendered("Transactions") => Displayed = lastResolved

\* Two calls were answered out of order: the rows displayed are those of a
\* call that is not the last one issued, and nothing is in flight.
C7_Witness ==
    /\ Rendered("Transactions")
    /\ inflight = {}
    /\ Transactions.transactions.req # 0
    /\ Transactions.transactions.req + 1 < nextId
    /\ Transactions.transactions.length = 3
    /\ Displayed = lastResolved

\* C8: after a search submit from any page, once every call it caused has
\* succeeded, the page is 1 and the transactions displayed are the answer to
\* (page 1, limit 10, the submitted search text, the current filter).
C8_SearchSubmitShowsFirstPage ==
    (/\ Rendered("Transactions")
     /\ lastEvent.kind = "search"
     /\ Transactions.error = Null
     /\ \A r \in inflight : r.id < lastEvent.first
     /\ Transactions.transactions.req >= lastEvent.first)
    => /\ Transactions.page = 1
       /\ Transactions.transactions.for = CurrentParams(1)

\* C9: a change of the status filter sets the page to 1 and issues at once a
\* getTransactions call with the new filter and page 1.
C9_FilterChangeResetsPage ==
    [][Transactions'.filter # Transactions.filter
       => /\ Transactions'.page = 1
          /\ \E r \in inflight' \ inflight :
                r.api = "getTransactions" /\ r.arg = TransactionParams(1, Transactions'.search, Transactions'.filter)]_vars

C11_NextPageRejectedOnShortPage ==
    [][Transactions.transactions.length < PageSize
       => /\ Transactions'.page <= Transactions.page
          /\ ~(lastEvent' # lastEvent /\ lastEvent'.kind = "next")]_vars

\* Page 2 is shown with 3 rows: the pagination is rendered, and its Next
\* button is the disabled one.
C11_Witness ==
    /\ PaginationRendered
    /\ Transactions.page = 2
    /\ Transactions.transactions.length = 3
    /\ Transactions.transactions.for.page = 2
    /\ inflight = {}

----------------------------------------------------------------------------
(* Properties: mutations and the reveal of the secret. *)

\* The calls issued by a step
Issued == inflight' \ inflight

\* C12: the step that handles the success of updateSettings, createApiKey or
\* deleteApiKey issues the re-fetch of the entity: getSettings after
\* updateSettings, getApiKeys after createApiKey and deleteApiKey.
C12_MutationSuccessReloads ==
    [][\A r \in inflight \ inflight' :
          /\ UpdateSettingsResolved(r) => \E q \in Issued : q.api = "getSettings"
          /\ (CreateApiKeyResolved(r) \/ DeleteApiKeyResolved(r))
             => \E q \in Issued : q.api = "getApiKeys"]_vars

\* The ApiKeys state but for the flag creating
ButCreating(A) == [A EXCEPT !.creating = FALSE]

\* C13: the step that handles the failure of createApiKey or deleteApiKey
\* changes nothing of the page (keys, loading and error included) but
\* creating, which a failed create sets to false; it shows an Error toast
\* with the message (or the handler's default text) and issues no call.
C13_MutationFailureLeavesList ==
    [][\A r \in inflight \ inflight' : \A msg \in ErrorMessages :
          /\ CreateApiKeyRejected(r, msg)
             => /\ ButCreating(ApiKeys') = ButCreating(ApiKeys)
                /\ Rendered("ApiKeys") => ~ApiKeys'.creating
                /\ toasts'.latest = Toast("Error", ShownMessage(msg, Text("Failed to create API key")))
                /\ Issued = {}
          /\ DeleteApiKeyRejected(r, msg)
             => /\ ApiKeys' = ApiKeys
                /\ toasts'.latest = Toast("Error", ShownMessage(msg, Text("Failed to delete API key")))
                /\ Issued = {}]_vars

\* A create request failed with "Network error" while the loaded list was
\* shown: the list is still shown, with no error, and creating is false.
C13_Witness ==
    /\ KeyListRendered
    /\ lastEvent.kind = "create"
    /\ inflight = {}
    /\ nextId = 3
    /\ ~ApiKeys.creating
    /\ ~ApiKeys.showCreatedKey
    /\ toasts.latest = Toast("Error", MsgNetwork)

\* C14: a delete whose confirmation is declined issues no call and leaves the
\* ApiKeys state (keys, loading and error included) and the toasts as they
\* were; a deleteApiKey call is issued only by a confirmed delete.
C14_DeclinedDeleteIsNoOp ==
    [][/\ \A key \in ApiKeys.keys.list :
             HandleDeleteKey(key, FALSE)
             => /\ Issued = {} /\ inflight' = inflight /\ nextId' = nextId
                /\ ApiKeys' = ApiKeys
                /\ toasts' = toasts
       /\ \A q \in Issued :
             q.api = "deleteApiKey"
             => \E key \in ApiKeys.keys.list : HandleDeleteKey(key, TRUE) /\ q.arg = key.id]_vars

\* The confirmation of a delete was declined on the loaded list: the only
\* call ever issued is the mount's.
C14_Witness ==
    /\ KeyListRendered
    /\ lastEvent.kind = "decline"
    /\ nextId = 2
    /\ inflight = {}
    /\ toasts = NoToasts

\* A name that is empty or made of spaces only
Blank(name) == \A i \in 1..Len(name) : name[i] = " "

\* C15: a create with an empty or whitespace-only name issues no call and
\* leaves the ApiKeys state as it was (creating false, no secret revealed,
\* keys, loading and error unchanged), showing the toast "Please enter a key
\* name"; creating becomes true, and createApiKey is called, only with a
\* name that is not blank.
C15_BlankNameIsRejected ==
    [][/\ (HandleCreateKey /\ Blank(ApiKeys.newKeyName))
          => /\ Issued = {} /\ inflight' = inflight /\ nextId' = nextId
             /\ ApiKeys' = ApiKeys
             /\ ~ApiKeys'.creating
             /\ ApiKeys'.createdKey = ApiKeys.createdKey
             /\ ApiKeys'.showCreatedKey = ApiKeys.showCreatedKey
             /\ toasts'.latest = Toast("Error", Text("Please enter a key name"))
       /\ (~ApiKeys.creating /\ ApiKeys'.creating) => ~Blank(ApiKeys.newKeyName)
       /\ \A q \in Issued : q.api = "createApiKey" => ~Blank(q.arg)]_vars

\* Create was clicked with the name " ": the toast asks for a name, nothing
\* but the mount's call was issued, and creating is false.
C15_Witness ==
    /\ Rendered("ApiKeys")
    /\ lastEvent.kind = "create"
    /\ ApiKeys.newKeyName = <<" ">>
    /\ toasts.latest = Toast("Error", Text("Please enter a key name"))
    /\ nextId = 2
    /\ ~ApiKeys.creating
    /\ ApiKeys.createdKey = NoSecret

\* No record of the key list has a field secret_key
NoSecretInKeys == \A key \in ApiKeys.keys.list : "secret_key" \notin DOMAIN key

\* C16: the step that handles the success of createApiKey puts the returned
\* secret_key in createdKey and shows the reveal dialog, leaving keys as it
\* was; keys changes only by taking the payload of a getApiKeys response; and
\* in every state no record of keys carries a secret_key.
C16_SecretOnlyInRevealState ==
    /\ []NoSecretInKeys
    /\ [][/\ \A r \in inflight \ inflight' :
                (CreateApiKeyResolved(r) /\ Rendered("ApiKeys"))
                => /\ ApiKeys'.createdKey = <<"bk_live_secret", r.id>>
                   /\ ApiKeys'.showCreatedKey
                   /\ ApiKeys'.keys = ApiKeys.keys
          /\ ApiKeys'.keys # ApiKeys.keys
             => \E r \in inflight \ inflight' : \E data \in ApiKeysData(r) :
                   GetApiKeysResolved(r, data) /\ ApiKeys'.keys = data]_vars

\* The secret of create call 2 is on show in the reveal dialog, and the list
\* fetched after the creation is displayed.
C16_Witness ==
    /\ Rendered("ApiKeys")
    /\ ApiKeys.showCreatedKey
    /\ ApiKeys.createdKey = <<"bk_live_secret", 2>>
    /\ ApiKeys.keys = Keys(3, {KeyProd})
    /\ ~ApiKeys.loading /\ ~ApiKeys.creating
    /\ inflight = {}

\* C17: closing the reveal dialog sets createdKey to null and issues a
\* getApiKeys call.
C17_CloseRevealClearsAndReloads ==
    [][HandleCloseCreatedKeyDialog
       => /\ ApiKeys'.createdKey = NoSecret
          /\ \E q \in Issued : q.api = "getApiKeys"]_vars

\* C18: closing the reveal dialog leaves createdKey null, and createdKey
\* leaves null only in the step that handles the success of a createApiKey
\* call, taking the secret of that call: no other step (load, Retry, delete,
\* dialog open or close) gives it a value.
C18_SecretNotRecoverable ==
    [][/\ HandleCloseCreatedKeyDialog
          => ApiKeys'.createdKey = NoSecret /\ ~ApiKeys'.showCreatedKey
       /\ (ApiKeys.createdKey = NoSecret /\ ApiKeys'.createdKey # NoSecret)
          => \E r \in inflight \ inflight' :
                /\ CreateApiKeyResolved(r)
                /\ ApiKeys'.createdKey = <<"bk_live_secret", r.id>>]_vars

\* A key was created (the toast says so) and the reveal dialog closed; the
\* create dialog was opened again after that, and createdKey is null.
C18_Witness ==
    /\ Rendered("ApiKeys")
    /\ toasts.latest = Toast("Success", Text("API key created successfully"))
    /\ ApiKeys.createdKey = NoSecret
    /\ ~ApiKeys.showCreatedKey
    /\ lastEvent.kind = "open"
    /\ ApiKeys.isCreateDialogOpen
    /\ inflight = {}

\* C19: key creation goes Idle -> Submitting -> Revealed | Failed.  While the
\* page is shown, creating = true is always left in the end; the success of
\* the createApiKey call reveals its secret (createdKey, showCreatedKey); its
\* failure sets creating to false with an Error toast of the message and
\* reveals nothing; and the reveal dialog gets shown in no other step than
\* the one that handles a createApiKey success.
C19_CreationLeavesSubmitting ==
    /\ (Rendered("ApiKeys") /\ ApiKeys.creating)
          ~> (~ApiKeys.creating \/ ~Rendered("ApiKeys"))
    /\ [][/\ \A r \in inflight \ inflight' :
                /\ (CreateApiKeyResolved(r) /\ Rendered("ApiKeys"))
                   => /\ ApiKeys.creating
                      /\ ApiKeys'.showCreatedKey
                      /\ ApiKeys'.createdKey = <<"bk_live_secret", r.id>>
                /\ \A msg \in ErrorMessages :
                      (CreateApiKeyRejected(r, msg) /\ Rendered("ApiKeys"))
                      => /\ ApiKeys.creating /\ ~ApiKeys'.creating
                         /\ ApiKeys'.showCreatedKey = ApiKeys.showCreatedKey
                         /\ toasts'.latest = Toast("Error", ShownMessage(msg, Text("Failed to create API key")))
          /\ (~ApiKeys.showCreatedKey /\ ApiKeys'.showCreatedKey)
             => \E r \in inflight \ inflight' : CreateApiKeyResolved(r)
          /\ (~ApiKeys.creating /\ ApiKeys'.creating) => HandleCreateKey]_vars

\* A creation went through Submitting and ended Revealed: the reveal dialog
\* shows the secret, the reload has returned and creating is false again.
C19_Witness ==
    /\ Rendered("ApiKeys")
    /\ ~ApiKeys.creating
    /\ ApiKeys.showCreatedKey
    /\ ApiKeys.createdKey # NoSecret
    /\ toasts.latest = Toast("Success", Text("API key created successfully"))
    /\ Calls({"createApiKey", "getApiKeys"}) = {}

----------------------------------------------------------------------------
(* Properties: the fetch lifecycle. *)

\* The phases of a page: Loading, Ready, Failed with a message
Loading(P) == P.loading

Ready(P) == ~P.loading /\ P.error = Null

FailedWith(P, message) == ~P.loading /\ P.error = message

\* C20: on the page shown, a step that issues a load call puts the page in
\* Loading; the step that handles the success of a load ends in Ready with
\* the payload applied; the step that handles its failure with a message
\* that is not Unauthorized ends in Failed with the message (or the page's
\* default text).
C20_RefreshEndsReadyOrFailed ==
    [][/\ \A q \in Issued :
             /\ (q.api = "getSettings" /\ Rendered("Settings")) => Loading(Settings')
             /\ (q.api = "getApiKeys" /\ Rendered("ApiKeys")) => Loading(ApiKeys')
             /\ (q.api \in TreasuryApis /\ Rendered("Treasury")) => Loading(Treasury')
             /\ (q.api = "getTransactions" /\ Rendered("Transactions")) => Loading(Transactions')
       /\ \A r \in inflight \ inflight' :
             /\ \A data \in SettingsData :
                   (GetSettingsResolved(r, data) /\ Rendered("Settings"))
                   => Ready(Settings') /\ Settings'.settings = data
             /\ \A data \in (IF r.api = "getApiKeys" THEN ApiKeysData(r) ELSE {}) :
                   (GetApiKeysResolved(r, data) /\ Rendered("ApiKeys"))
                   => Ready(ApiKeys') /\ ApiKeys'.keys = data
             /\ \A data \in (IF r.api \in TreasuryApis THEN TreasuryData(r) ELSE {}) :
                   (/\ TreasuryResolved(r, data) /\ Rendered("Treasury")
                    /\ Unsettled(r) # {} /\ promiseAll' = promiseAll \ Unsettled(r))
                   => Ready(Treasury')
             /\ \A data \in (IF r.api = "getTransactions" THEN TransactionsData(r) ELSE {}) :
                   (TransactionsResolved(r, data) /\ Rendered("Transactions"))
                   => Ready(Transactions') /\ Displayed' = data
             /\ \A msg \in OtherMessages :
                   /\ (GetSettingsRejected(r, msg) /\ Rendered("Settings"))
                      => FailedWith(Settings', ShownMessage(msg, Text("Failed to load settings")))
                   /\ (GetApiKeysRejected(r, msg) /\ Rendered("ApiKeys"))
                      => FailedWith(ApiKeys', ShownMessage(msg, Text("Failed to load API keys")))
                   /\ (TreasuryRejected(r, msg) /\ Rendered("Treasury") /\ Unsettled(r) # {})
                      => FailedWith(Treasury', ShownMessage(msg, Text("Failed to load treasury data")))
                   /\ (TransactionsRejected(r, msg) /\ Rendered("Transactions"))
                      => FailedWith(Transactions', ShownMessage(msg, Text("Failed to load transactions")))]_vars

----------------------------------------------------------------------------
(* Properties: Treasury and Settings. *)

\* What the Treasury page displays of the two responses
TreasuryPair == <<Treasury.positions, Treasury.totalValue>>

\* C21: on the Treasury page shown, the step that answers the second call of
\* a load whose other call has succeeded sets positions and totalValue to the
\* two responses of that load, the total being the total_value of its
\* getTreasuryPortfolio response; every other step (a first answer, any
\* failure, the issue of a load) leaves both as they were.
C21_TotalValueFromPortfolio ==
    [][/\ \A r \in inflight \ inflight' :
             \A data \in (IF r.api \in TreasuryApis THEN TreasuryData(r) ELSE {}) :
                (TreasuryResolved(r, data) /\ Rendered("Treasury"))
                => \A p \in Unsettled(r) :
                      /\ (r.api = "getTreasuryPositions" /\ p.portfolio.req = p.load + 1)
                         => TreasuryPair' = <<data.list, p.portfolio.total_value>>
                      /\ (r.api = "getTreasuryPortfolio" /\ p.positions.req = p.load)
                         => TreasuryPair' = <<p.positions.list, data.total_value>>
       /\ TreasuryPair' # TreasuryPair
          => \E r \in inflight \ inflight' : \E data \in TreasuryData(r) :
                /\ r.api \in TreasuryApis
                /\ TreasuryResolved(r, data)
                /\ \E p \in Unsettled(r) : p.positions.req = p.load \/ p.portfolio.req = p.load + 1]_vars

\* A load was fulfilled with two positions worth 1400 together and a
\* portfolio total of 1500: the total displayed is the portfolio's.
C21_Witness ==
    /\ Rendered("Treasury")
    /\ ~Treasury.loading /\ Treasury.error = Null
    /\ Len(Treasury.positions) = 2
    /\ Treasury.totalValue = 1500
    /\ inflight = {}

\* A text with every "%" removed
RECURSIVE WithoutPercent(_)
WithoutPercent(s) ==
    IF s = <<>> THEN <<>>
    ELSE IF Head(s) = "%" THEN WithoutPercent(Tail(s))
    ELSE <<Head(s)>> \o WithoutPercent(Tail(s))

\* A well-formed number: digits only, at least one
WellFormed(s) == s # <<>> /\ \A i \in 1..Len(s) : s[i] \in DOMAIN DigitValues

\* The apy the claim counts for a text, in hundredths: its number when the
\* text without "%" is one, and 0 when it is malformed
ClaimedAPY(apy) ==
    IF WellFormed(WithoutPercent(apy)) THEN 100 * IntValue(WithoutPercent(apy)) ELSE 0

RECURSIVE ClaimedSum(_)
ClaimedSum(positions) ==
    IF positions = <<>> THEN 0
    ELSE ClaimedAPY(Head(positions).apy) + ClaimedSum(Tail(positions))

\* The mean rounded to two decimals, in hundredths; 0 without positions
ClaimedAvg(positions) ==
    IF positions = <<>> THEN 0
    ELSE (2 * ClaimedSum(positions) + Len(positions)) \div (2 * Len(positions))

\* C22: the average APY displayed is the mean over the loaded positions of
\* the apy texts read as numbers once "%" is removed, a malformed text
\* counting as 0, and it is 0.00 without positions.
C22_AverageApy ==
    Rendered("Treasury") => AvgAPY(Treasury.positions) = ClaimedAvg(Treasury.positions)

\* The two fields of the settings that the form does not let the user edit
ReadOnly(settings) == <<settings.registration_number, settings.kyc_status>>

\* C23: registration_number and kyc_status change in the state of the page
\* only when the payload of a getSettings response is applied, and then to
\* the payload's values; an edit of a field or a save leaves them as they
\* are; the argument of every updateSettings call issued is exactly
\* company_name, email and website as they are in the form.
C23_ReadOnlyFields ==
    [][/\ ReadOnly(Settings'.settings) # ReadOnly(Settings.settings)
          => \E r \in inflight \ inflight' :
                 /\ r.api = "getSettings"
                 /\ \E data \in SettingsData :
                        /\ GetSettingsResolved(r, data)
                        /\ Settings'.settings = data
       /\ (lastEvent' # lastEvent /\ lastEvent'.kind \in {"edit", "save"})
          => ReadOnly(Settings'.settings) = ReadOnly(Settings.settings)
       /\ \A r \in Issued :
              r.api = "updateSettings"
              => /\ DOMAIN r.arg = EditableFields
                 /\ \A field \in EditableFields : r.arg[field] = Settings.settings[field]
      ]_vars

\* An edited form is being saved: the loaded read-only values are in the
\* state and the call in flight carries the text typed.
C23_Witness ==
    /\ Rendered("Settings")
    /\ Settings.saving
    /\ Settings.settings.company_name = "typed"
    /\ ReadOnly(Settings.settings) = <<"R-1", "verified">>
    /\ \E r \in inflight :
           /\ r.api = "updateSettings"
           /\ r.arg.company_name = "typed"

----------------------------------------------------------------------------
(* Properties: feedback, loading and paging. *)

Mutations == {"updateSettings", "createApiKey", "deleteApiKey"}

\* The text of the Success message of a handler,
SuccessText(handler) ==
    CASE handler = "handleSave" -> Text("Settings updated successfully")
      [] handler = "handleCreateKey" -> Text("API key created successfully")
      [] handler = "handleDeleteKey" -> Text("API key deleted successfully")

\* and of its Error message when the failure has no message of its own.
FailureText(handler) ==
    CASE handler = "handleSave" -> Text("Failed to update settings")
      [] handler = "handleCreateKey" -> Text("Failed to create API key")
      [] handler = "handleDeleteKey" -> Text("Failed to delete API key")

\* The reload that a create or a delete awaits after its mutation succeeded
FollowUp(r) == r.api = "getApiKeys" /\ r.cont.handler \in {"handleCreateKey", "handleDeleteKey"}

\* C24: a save, create or delete that issued its mutation request shows one
\* message: Error with the failure's message (the handler's own text when
\* there is none) in the step where the mutation fails, after which the
\* handler awaits nothing more; Success when the mutation has succeeded, in
\* that step for a save, and for a create or a delete in the step where the
\* reload it awaits is answered, whatever the answer.  No other answer shows
\* a message.
C24_OneFeedbackPerMutation ==
    [][/\ \A r \in inflight \ inflight' :
           /\ \A msg \in ErrorMessages :
                  MutationFailure(r, msg)
                  => /\ toasts'.latest = Toast("Error", ShownMessage(msg, FailureText(r.cont.handler)))
                     /\ Issued = {}
           /\ UpdateSettingsResolved(r)
              => /\ toasts'.latest = Toast("Success", SuccessText("handleSave"))
                 /\ Issued = {}
           /\ (CreateApiKeyResolved(r) \/ DeleteApiKeyResolved(r))
              => /\ toasts' = toasts
                 /\ \E q \in Issued : FollowUp(q) /\ q.cont.handler = r.cont.handler
                 /\ Cardinality(Issued) = 1
           /\ FollowUp(r)
              => /\ toasts'.latest = Toast("Success", SuccessText(r.cont.handler))
                 /\ Issued = {}
           /\ (r.api \notin Mutations /\ ~FollowUp(r)) => toasts' = toasts
       /\ (inflight \ inflight' = {} /\ toasts' # toasts)
          => HandleCreateKey /\ Blank(ApiKeys.newKeyName)
      ]_vars

\* The reload after a successful create failed: the page shows the load's
\* error and the message shown is the Success of the create.
C24_Witness ==
    /\ Rendered("ApiKeys")
    /\ lastEvent.kind = "create"
    /\ inflight = {}
    /\ ~ApiKeys.loading
    /\ ApiKeys.error = MsgNetwork
    /\ ApiKeys.showCreatedKey
    /\ toasts.latest = Toast("Success", Text("API key created successfully"))

\* C25: on the Transactions and ApiKeys pages the loading flag is true in
\* every state where a fetch of the page is in flight.
C25_LoadingWhileFetching ==
    /\ (Rendered("Transactions") /\ Calls({"getTransactions"}) # {}) => Transactions.loading
    /\ (Rendered("ApiKeys") /\ Calls({"getApiKeys"}) # {}) => ApiKeys.loading

\* C26: every getTransactions call issued carries the text of the search box
\* as it was at the last submit of the form, and no search text before the
\* first submit; the text typed since is sent only by the next submit.
C26_SearchSentAsSubmitted ==
    [][\A q \in Issued :
          q.api = "getTransactions"
          => q.arg.search = (IF submitted' # "" THEN submitted' ELSE Absent)]_vars

\* The Previous button is on screen and is not disabled
PreviousAvailable == PaginationRendered /\ Transactions.page # 1

\* C27: on the Transactions page, when page > 1, no fetch is in flight and
\* there is no error, Previous is available, a page without rows included;
\* Previous sets page to page - 1; page is never below 1.
C27_CanGoBack ==
    /\ [](/\ Transactions.page >= 1
          /\ (/\ Rendered("Transactions")
              /\ Transactions.page > 1
              /\ Calls({"getTransactions"}) = {}
              /\ Transactions.error = Null)
             => PreviousAvailable)
    /\ [][PreviousPage => Transactions'.page = Transactions.page - 1]_vars

====
